---- MODULE Spec2Model ----
(***************************************************************************)
(* Sample search resolution of sagittariidae (app/sampleresolver.py).      *)
(*                                                                         *)
(* SampleResolver.resolve(tokens, project_id) looks the project up, runs   *)
(* a SampleTokenResolver for every token (three attribute resolvers per    *)
(* token, run one after the other, their results wrapped in                *)
(* _HashableSample_ and unioned), drops the empty per-token sets and       *)
(* intersects the rest.  The model follows one resolution step by step.    *)
(* Text is a sequence of one-character strings so that ILIKE can be        *)
(* computed.                                                               *)
(***************************************************************************)
EXTENDS Integers, Sequences, FiniteSets, TLC

VARIABLES db, pc, tokens, project_id, project, tokIdx, resolvers,
          tokenSets, invoked, log, ret, prev

vars == <<db, pc, tokens, project_id, project, tokIdx, resolvers,
          tokenSets, invoked, log, ret, prev>>

\* ------------------------------------------------------------------ bounds
\* longest token sequence of a fresh query
MaxTokens == 2
\* most matcher failures the persistence layer produces in one resolution
MaxFailures == 1

\* ------------------------------------------------------------------- text
NULL == <<"NULL">>

Lower(c) == IF c = "A" THEN "a" ELSE IF c = "B" THEN "b" ELSE c

LowerStr(s) == [i \in 1..Len(s) |-> Lower(s[i])]

\* SQL LIKE: % matches any run of characters, _ any one character
RECURSIVE Like(_, _)
Like(p, s) ==
    IF p = <<>> THEN s = <<>>
    ELSE IF Head(p) = "%"
         THEN Like(Tail(p), s) \/ (s # <<>> /\ Like(p, Tail(s)))
         ELSE /\ s # <<>>
              /\ (Head(p) = "_" \/ Head(p) = Head(s))
              /\ Like(Tail(p), Tail(s))

\* column.ilike(pattern): case-insensitive LIKE, never true of a NULL column
ilike(column, pattern) ==
    /\ column # NULL
    /\ Like(LowerStr(pattern), LowerStr(column))

\* '%%%s%%' % token
WrapToken(token) == <<"%">> \o token \o <<"%">>

\* --------------------------------------------------------------- database
\* the project table; get_project looks a row up by obfuscated_id
Projects == { [id |-> 1, obfuscated_id |-> "p1"],
              [id |-> 2, obfuscated_id |-> "p2"] }

ProjectIds == {"p1", "p2", "px"}

Names == { <<"A">>, <<"b", "a">> }

Tokens == { <<"a">>, <<"b">> }

\* rows of the sample, sample_stage and method tables, in table order
Databases ==
    { [ samples |-> << [id |-> 1, obfuscated_id |-> "s1", _project_id |-> 1, name |-> n1],
                       [id |-> 2, obfuscated_id |-> "s2", _project_id |-> 1, name |-> n2],
                       [id |-> 3, obfuscated_id |-> "s3", _project_id |-> 2, name |-> <<"A">>] >>,
        stages  |-> << [id |-> 1, sample_id |-> 1, method_id |-> 1, annotation |-> <<"x", "A">>],
                       [id |-> 2, sample_id |-> 1, method_id |-> 1, annotation |-> NULL],
                       [id |-> 3, sample_id |-> 3, method_id |-> 2, annotation |-> NULL],
                       [id |-> 4, sample_id |-> 2, method_id |-> 0, annotation |-> <<"B">>] >>,
        methods |-> << [id |-> 1, name |-> <<"a", "X">>],
                       [id |-> 2, name |-> <<"a">>] >> ]
      : n1 \in Names, n2 \in Names }

SeqRange(s) == { s[i] : i \in 1..Len(s) }

\* SampleStage.sample
SampleOf(stage) == CHOOSE s \in SeqRange(db.samples) : s.id = stage.sample_id

HasMethod(stage) == \E m \in SeqRange(db.methods) : m.id = stage.method_id

MethodOf(stage) == CHOOSE m \in SeqRange(db.methods) : m.id = stage.method_id

\* the name query without its project filter
_SampleNameResolver_Unscoped(token, pid) ==
    SelectSeq(db.samples, LAMBDA s : ilike(s.name, token))

_SampleNameResolver_(token, pid) ==
    SelectSeq(db.samples, LAMBDA s : s._project_id = pid /\ ilike(s.name, token))

_StageAnnotationResolver_(token, pid) ==
    LET q == SelectSeq(db.stages, LAMBDA g : /\ SampleOf(g)._project_id = pid
                                            /\ ilike(g.annotation, token))
    IN  [i \in 1..Len(q) |-> SampleOf(q[i])]

_StageMethodResolver_(token, pid) ==
    LET q == SelectSeq(db.stages, LAMBDA g : /\ HasMethod(g)
                                            /\ SampleOf(g)._project_id = pid
                                            /\ ilike(MethodOf(g).name, token))
    IN  [i \in 1..Len(q) |-> SampleOf(q[i])]

_RESOLVER_TYPES_ == << "_SampleNameResolver_",
                       "_StageMethodResolver_",
                       "_StageAnnotationResolver_" >>

\* self.resolve(token, project_id), dispatched on the resolver's class
ResolverResolve(cls, token, pid) ==
    CASE cls = "_SampleNameResolver_"      -> _SampleNameResolver_(token, pid)
      [] cls = "_StageMethodResolver_"     -> _StageMethodResolver_(token, pid)
      [] cls = "_StageAnnotationResolver_" -> _StageAnnotationResolver_(token, pid)

\* ------------------------------------------------------- _HashableSample_
\* a wrapper object: the sample it wraps and the wrapper's own object identity
_HashableSample_(sample, oid) == [sample |-> sample, oid |-> oid]

Key(h) == << h.sample.id, h.sample.obfuscated_id, h.sample._project_id >>

\* object identity, the equality of a class that defines no __eq__
HashableEqIdentity(a, b) == a = b

HashableEq(a, b) == Key(a) = Key(b)

\* set.add(h): a set keeps the element it has when an equal one is added
SetAdd(S, h) == IF \E x \in S : HashableEq(x, h) THEN S ELSE S \cup {h}

\* a union that keeps only the first non-empty operand
SetUnionFirst(U, S) == IF U = {} THEN S ELSE U

\* union | s
SetUnion(U, S) == U \cup { h \in S : ~ \E x \in U : HashableEq(x, h) }

\* intersection & s
SetIntersection(I, S) == { h \in I : \E x \in S : HashableEq(x, h) }

\* the for loop of _Resolver_.run over the samples a resolver returned
RECURSIVE AddAll(_, _, _, _)
AddAll(S, samples, oidBase, i) ==
    IF i > Len(samples) THEN S
    ELSE AddAll(SetAdd(S, _HashableSample_(samples[i], oidBase \o <<i>>)),
                samples, oidBase, i + 1)

\* reduce(lambda union, s: union | s, candidate_results, set())
RECURSIVE ReduceUnion(_, _)
ReduceUnion(acc, sets) ==
    IF sets = <<>> THEN acc ELSE ReduceUnion(SetUnion(acc, Head(sets)), Tail(sets))

\* reduce(lambda intersection, s: intersection & s, candidate_results)
RECURSIVE ReduceIntersection(_, _)
ReduceIntersection(acc, sets) ==
    IF sets = <<>> THEN acc
    ELSE ReduceIntersection(SetIntersection(acc, Head(sets)), Tail(sets))

\* [s for s in [...] if len(s) > 0]
CandidateResults(sets) == SelectSeq(sets, LAMBDA s : Cardinality(s) > 0)

\* the lists a set may be iterated as
Orderings(S) ==
    { f \in [1..Cardinality(S) -> S] : \A x \in S : \E i \in 1..Cardinality(S) : f[i] = x }

\* models.get_project(obfuscated_id=project_id)
ProjectFound(pid) == \E p \in Projects : p.obfuscated_id = pid

get_project(pid) == CHOOSE p \in Projects : p.obfuscated_id = pid

NoProject == [id |-> 0, obfuscated_id |-> "none"]

NoReturn == [kind |-> "none"]

NoPrev == [kind |-> "none"]

TokenSeqs == UNION { [1..n -> Tokens] : n \in 0..MaxTokens }

\* ------------------------------------------------------------------- Init
Init ==
    /\ db \in Databases
    /\ pc = "idle"
    /\ tokens = <<>>
    /\ project_id = "p1"
    /\ project = NoProject
    /\ tokIdx = 1
    /\ resolvers = <<>>
    /\ tokenSets = <<>>
    /\ invoked = {}
    /\ log = {}
    /\ ret = NoReturn
    /\ prev = NoPrev

\* ---------------------------------------------------------------- actions
StartCall(ts, pid, p) ==
    /\ pc' = "get_project"
    /\ tokens' = ts
    /\ project_id' = pid
    /\ project' = NoProject
    /\ tokIdx' = 1
    /\ resolvers' = <<>>
    /\ tokenSets' = <<>>
    /\ invoked' = {}
    /\ log' = {}
    /\ ret' = NoReturn
    /\ prev' = p
    /\ UNCHANGED db

\* a caller invokes SampleResolver().resolve(tokens, project_id)
Call ==
    /\ pc = "idle"
    /\ \E ts \in TokenSeqs, pid \in ProjectIds : StartCall(ts, pid, NoPrev)

\* a caller repeats a query that finished without a matcher failure, with one
\* more token, and keeps the earlier result to compare
CallExtended ==
    /\ pc = "done"
    /\ ret.kind = "value"
    /\ Len(tokens) < MaxTokens
    /\ log = {}
    /\ \E t \in Tokens :
          StartCall(Append(tokens, t), project_id,
                    [kind |-> "call", tokens |-> tokens, ret |-> ret, log |-> log])

\* the lookup failure swallowed: resolution goes on without a project
GetProjectSwallowed ==
    /\ pc = "get_project"
    /\ project' = IF ProjectFound(project_id) THEN get_project(project_id) ELSE NoProject
    /\ pc' = "tokens"
    /\ UNCHANGED <<db, tokens, project_id, tokIdx, resolvers, tokenSets,
                   invoked, log, ret, prev>>

\* project = models.get_project(obfuscated_id=project_id)
GetProject ==
    /\ pc = "get_project"
    /\ IF ProjectFound(project_id)
       THEN /\ project' = get_project(project_id)
            /\ pc' = "tokens"
            /\ ret' = ret
       ELSE /\ project' = project
            /\ pc' = "done"
            /\ ret' = [kind |-> "raise", exc |-> "ProjectNotFound"]
    /\ UNCHANGED <<db, tokens, project_id, tokIdx, resolvers, tokenSets,
                   invoked, log, prev>>

\* SampleTokenResolver(project).resolve(t): make_resolver for every type
MakeResolvers ==
    /\ pc = "tokens"
    /\ tokIdx <= Len(tokens)
    /\ resolvers' = [i \in 1..Len(_RESOLVER_TYPES_) |->
                        [cls     |-> _RESOLVER_TYPES_[i],
                         project |-> project,
                         token   |-> WrapToken(tokens[tokIdx]),
                         results |-> {},
                         state   |-> "new"]]
    /\ pc' = "run"
    /\ UNCHANGED <<db, tokens, project_id, project, tokIdx, tokenSets,
                   invoked, log, ret, prev>>

Running == { i \in 1..Len(resolvers) : resolvers[i].state = "running" }

Finished == { i \in 1..Len(resolvers) : resolvers[i].state = "done" }

\* resolver.start() for every resolver: any resolver not yet started may run
NextToRunThreaded(i) ==
    /\ i \in 1..Len(resolvers)
    /\ resolvers[i].state = "new"

\* whether resolver i is the next one `for resolver in resolvers: resolver.run()` runs
NextToRun(i) ==
    /\ i \in 1..Len(resolvers)
    /\ resolvers[i].state = "new"
    /\ \A j \in 1..(i - 1) : resolvers[j].state = "done"

\* resolver.run() is entered: self.results = set(), the query is issued
RunBegin(i) ==
    /\ pc = "run"
    /\ NextToRun(i)
    /\ resolvers' = [resolvers EXCEPT ![i].state = "running", ![i].results = {}]
    /\ invoked' = invoked \cup
                    { [tok |-> tokIdx, cls |-> resolvers[i].cls,
                       token |-> resolvers[i].token, pid |-> resolvers[i].project.id] }
    /\ UNCHANGED <<db, pc, tokens, project_id, project, tokIdx, tokenSets,
                   log, ret, prev>>

\* the query returned: every sample is wrapped and added to self.results
RunReturn(i) ==
    /\ pc = "run"
    /\ i \in Running
    /\ LET r == resolvers[i]
           samples == ResolverResolve(r.cls, r.token, r.project.id)
       IN  resolvers' = [resolvers EXCEPT
                            ![i].state = "done",
                            ![i].results = AddAll(r.results, samples, <<tokIdx, i>>, 1)]
    /\ UNCHANGED <<db, pc, tokens, project_id, project, tokIdx, tokenSets,
                   invoked, log, ret, prev>>

\* the query raised and run has no try/except: the exception reaches the caller
RunRaiseUncaught(i) ==
    /\ pc = "run"
    /\ i \in Running
    /\ Cardinality(log) < MaxFailures
    /\ resolvers' = [resolvers EXCEPT ![i].state = "done"]
    /\ log' = log \cup { [tok |-> tokIdx, cls |-> resolvers[i].cls] }
    /\ ret' = [kind |-> "raise", exc |-> "Exception"]
    /\ pc' = "done"
    /\ UNCHANGED <<db, tokens, project_id, project, tokIdx, tokenSets, invoked, prev>>

\* the query raised: the exception is caught and logged
RunRaise(i) ==
    /\ pc = "run"
    /\ i \in Running
    /\ Cardinality(log) < MaxFailures
    /\ resolvers' = [resolvers EXCEPT ![i].state = "done"]
    /\ log' = log \cup { [tok |-> tokIdx, cls |-> resolvers[i].cls] }
    /\ UNCHANGED <<db, pc, tokens, project_id, project, tokIdx, tokenSets,
                   invoked, ret, prev>>

\* candidate_results = [r.results for r in resolvers]; return reduce(union)
TokenUnion ==
    /\ pc = "run"
    /\ \A i \in 1..Len(resolvers) : resolvers[i].state = "done"
    /\ tokenSets' = Append(tokenSets,
                           ReduceUnion({}, [i \in 1..Len(resolvers) |-> resolvers[i].results]))
    /\ tokIdx' = tokIdx + 1
    /\ pc' = "tokens"
    /\ UNCHANGED <<db, tokens, project_id, project, resolvers, invoked, log, ret, prev>>

\* reduce without the length guard: reduce of an empty list raises TypeError
ReturnUnguarded ==
    /\ pc = "tokens"
    /\ tokIdx > Len(tokens)
    /\ LET candidate_results == CandidateResults(tokenSets)
       IN  IF Len(candidate_results) > 0
           THEN \E f \in Orderings(ReduceIntersection(Head(candidate_results),
                                                      Tail(candidate_results))) :
                   ret' = [kind |-> "value", value |-> [i \in DOMAIN f |-> f[i].sample]]
           ELSE ret' = [kind |-> "raise", exc |-> "TypeError"]
    /\ pc' = "done"
    /\ UNCHANGED <<db, tokens, project_id, project, tokIdx, resolvers, tokenSets,
                   invoked, log, prev>>

\* the non-empty per-token sets are intersected and unwrapped
Return ==
    /\ pc = "tokens"
    /\ tokIdx > Len(tokens)
    /\ LET candidate_results == CandidateResults(tokenSets)
       IN  IF Len(candidate_results) > 0
           THEN \E f \in Orderings(ReduceIntersection(Head(candidate_results),
                                                      Tail(candidate_results))) :
                   ret' = [kind |-> "value", value |-> [i \in DOMAIN f |-> f[i].sample]]
           ELSE ret' = [kind |-> "value", value |-> <<>>]
    /\ pc' = "done"
    /\ UNCHANGED <<db, tokens, project_id, project, tokIdx, resolvers, tokenSets,
                   invoked, log, prev>>

Next ==
    \/ Call
    \/ CallExtended
    \/ GetProject
    \/ MakeResolvers
    \/ \E i \in 1..Len(_RESOLVER_TYPES_) : RunBegin(i)
    \/ \E i \in 1..Len(_RESOLVER_TYPES_) : RunReturn(i)
    \/ \E i \in 1..Len(_RESOLVER_TYPES_) : RunRaise(i)
    \/ TokenUnion
    \/ Return

Spec == Init /\ [][Next]_vars

\* ----------------------------------------------------- properties checked
SampleKey(s) == << s.id, s.obfuscated_id, s._project_id >>

KeysOf(S) == { Key(h) : h \in S }

ReturnedKeys(r) == { SampleKey(r.value[i]) : i \in DOMAIN r.value }

\* identity keys of the samples resolver class cls returns for the raw token
MatcherKeys(cls, token, pid) ==
    { SampleKey(x) : x \in SeqRange(ResolverResolve(cls, WrapToken(token), pid)) }

ResolverClasses == SeqRange(_RESOLVER_TYPES_)

Failed(i, cls) == [tok |-> i, cls |-> cls] \in log

\* keys returned for token i by the matchers that did not raise
SurvivorKeys(i) ==
    UNION { MatcherKeys(cls, tokens[i], project.id) :
              cls \in { c \in ResolverClasses : ~ Failed(i, c) } }

Resolved == pc = "done" /\ ret.kind = "value"

\* C1: when some token's result set is empty, the query result is empty
\* (stated for the runs in which no matcher raised).
EmptyTokenSetDominance ==
    (Resolved /\ log = {} /\ \E i \in 1..Len(tokenSets) : tokenSets[i] = {})
        => ret.value = <<>>

\* C2: for a non-empty token sequence the returned entities are, by identity
\* key, exactly those present in the result set of every token (stated for the
\* runs in which no matcher raised).
QueryIntersection ==
    (Resolved /\ log = {} /\ tokens # <<>>)
        => ReturnedKeys(ret) =
             { k \in UNION { KeysOf(tokenSets[i]) : i \in 1..Len(tokenSets) } :
                 \A i \in 1..Len(tokenSets) : k \in KeysOf(tokenSets[i]) }

\* C3: a token's result set holds an entity iff some matcher returned an
\* entity with that identity key for the token and the project scope.
TokenUnionOfMatchers ==
    \A i \in 1..Len(tokenSets) : KeysOf(tokenSets[i]) = SurvivorKeys(i)

\* C3 witness: a token whose set draws on two matchers with different results
TokenUnionWitness ==
    /\ Len(tokenSets) >= 1
    /\ log = {}
    /\ \E c1 \in ResolverClasses, c2 \in ResolverClasses :
          /\ MatcherKeys(c1, tokens[1], project.id) # {}
          /\ MatcherKeys(c2, tokens[1], project.id) # {}
          /\ MatcherKeys(c1, tokens[1], project.id) # MatcherKeys(c2, tokens[1], project.id)

\* the keys resolve returns for per-token key sets: those in every non-empty set
CombinedKeys(sets) ==
    LET ne == { i \in DOMAIN sets : sets[i] # {} }
    IN  IF ne = {} THEN {}
        ELSE { k \in UNION { sets[i] : i \in ne } : \A i \in ne : k \in sets[i] }

\* C4: a matcher that raises is caught and logged, nothing reaches the caller,
\* it contributes the empty set, its sibling matchers and the other tokens are
\* still run, and the result is the one computed from the surviving matchers.
MatcherIsolation ==
    /\ \A f \in log :
          /\ [tok |-> f.tok, cls |-> f.cls,
              token |-> WrapToken(tokens[f.tok]), pid |-> project.id] \in invoked
          /\ (f.tok = tokIdx /\ pc = "run") =>
                \A i \in 1..Len(resolvers) :
                   resolvers[i].cls = f.cls => resolvers[i].results = {}
    /\ (log # {}) => ret.kind # "raise"
    /\ (pc = "done" /\ log # {}) =>
          /\ ret.kind = "value"
          /\ Len(tokenSets) = Len(tokens)
          /\ \A i \in 1..Len(tokens), cls \in ResolverClasses :
                \E v \in invoked : v.tok = i /\ v.cls = cls
          /\ \A i \in 1..Len(tokens) : KeysOf(tokenSets[i]) = SurvivorKeys(i)
          /\ ReturnedKeys(ret) = CombinedKeys([i \in 1..Len(tokens) |-> SurvivorKeys(i)])

\* C4 witness: a matcher with matches raised, a sibling still contributed,
\* and a later token was resolved
MatcherIsolationWitness ==
    /\ Resolved
    /\ Len(tokens) = 2
    /\ ret.value # <<>>
    /\ \E cls \in ResolverClasses :
          /\ Failed(1, cls)
          /\ MatcherKeys(cls, tokens[1], project.id) # {}
          /\ SurvivorKeys(1) # {}
          /\ SurvivorKeys(2) # {}

\* C5: with a project_id that resolves to no project, resolve raises
\* ProjectNotFound, no matcher is invoked and no result is returned.
ProjectNotFoundSurfaced ==
    (~ ProjectFound(project_id) /\ pc \notin {"idle", "get_project"})
        => /\ pc = "done"
           /\ ret = [kind |-> "raise", exc |-> "ProjectNotFound"]
           /\ invoked = {}
           /\ tokenSets = <<>>

\* C5 witness: a query with tokens failed on an unknown project
ProjectNotFoundWitness ==
    /\ pc = "done"
    /\ ~ ProjectFound(project_id)
    /\ tokens # <<>>
    /\ ret.kind = "raise"

\* C6: no resolver's results, no token's result set and no returned sequence
\* holds two entities with the same identity key.
DeDuplication ==
    /\ \A i \in 1..Len(resolvers) :
          \A a \in resolvers[i].results, b \in resolvers[i].results :
             Key(a) = Key(b) => a = b
    /\ \A i \in 1..Len(tokenSets) :
          \A a \in tokenSets[i], b \in tokenSets[i] : Key(a) = Key(b) => a = b
    /\ ret.kind = "value" =>
          \A i \in DOMAIN ret.value, j \in DOMAIN ret.value :
             SampleKey(ret.value[i]) = SampleKey(ret.value[j]) => i = j

\* whether a list holds the same sample at two positions
HasRepeat(samples) ==
    \E i \in DOMAIN samples, j \in DOMAIN samples :
       i # j /\ SampleKey(samples[i]) = SampleKey(samples[j])

\* C6 witness: one matcher returned a sample twice and another matcher
\* returned the same sample, and the query returned it
DeDuplicationWitness ==
    /\ Resolved
    /\ tokens # <<>>
    /\ log = {}
    /\ \E c1 \in ResolverClasses, c2 \in ResolverClasses :
          /\ c1 # c2
          /\ HasRepeat(ResolverResolve(c1, WrapToken(tokens[1]), project.id))
          /\ \E k \in MatcherKeys(c1, tokens[1], project.id) :
                /\ k \in MatcherKeys(c2, tokens[1], project.id)
                /\ k \in ReturnedKeys(ret)

\* C7: the empty query on a known project returns the empty sequence and
\* invokes no matcher.
EmptyQuery ==
    (pc = "done" /\ tokens = <<>> /\ ProjectFound(project_id))
        => /\ ret = [kind |-> "value", value |-> <<>>]
           /\ invoked = {}

\* C7 witness: an empty query on a known project has finished
EmptyQueryWitness ==
    /\ pc = "done"
    /\ tokens = <<>>
    /\ ProjectFound(project_id)
    /\ ret.kind = "value"

\* C8: every matcher is invoked with the scope of the project looked up from
\* project_id, and every entity in a result set or in the result is of it.
ProjectScoping ==
    /\ pc \notin {"idle", "get_project"} /\ ProjectFound(project_id)
          => project = get_project(project_id)
    /\ \A v \in invoked : v.pid = project.id /\ ProjectFound(project_id)
    /\ \A i \in 1..Len(resolvers) :
          /\ resolvers[i].project = project
          /\ \A h \in resolvers[i].results : h.sample._project_id = project.id
    /\ \A i \in 1..Len(tokenSets) :
          \A h \in tokenSets[i] : h.sample._project_id = project.id
    /\ ret.kind = "value" =>
          \A i \in DOMAIN ret.value : ret.value[i]._project_id = project.id

\* C8 witness: a query returned entities while a sample of another project
\* has a name containing a token of it
ProjectScopingWitness ==
    /\ Resolved
    /\ ret.value # <<>>
    /\ \E s \in SeqRange(db.samples), i \in 1..Len(tokens) :
          /\ s._project_id # project.id
          /\ ilike(s.name, WrapToken(tokens[i]))

\* C9: at most one matcher invocation is in progress at a time, a token's
\* union exists only once all its matchers have finished, and the caller gets
\* a result only after every token has been unioned.
SequentialExecution ==
    /\ Cardinality(Running) <= 1
    /\ \A i \in Running : \A j \in 1..(i - 1) : j \in Finished
    /\ pc = "run" => Len(tokenSets) = tokIdx - 1
    /\ pc = "tokens" =>
          /\ Len(tokenSets) = tokIdx - 1
          /\ tokIdx > 1 => Finished = 1..Len(_RESOLVER_TYPES_)
    /\ pc # "done" => ret = NoReturn
    /\ ret.kind = "value" => Len(tokenSets) = Len(tokens)

\* C9 witness: the second matcher is running, the first has finished and the
\* third has not begun, for the second token
SequentialExecutionWitness ==
    /\ pc = "run"
    /\ tokIdx = 2
    /\ Running = {2}
    /\ Finished = {1}

\* C10: adding a token to a non-empty query never adds an identity key to
\* the result, the matchers returning the same in both runs.
AddingTokenNeverEnlarges ==
    (Resolved /\ prev.kind = "call" /\ prev.tokens # <<>> /\ log = {} /\ prev.log = {})
        => ReturnedKeys(ret) \subseteq ReturnedKeys(prev.ret)

====
